---- MODULE Spec2Model ----
(***************************************************************************)
(* Model of src/app.py: the judging-sheet generator.  The module covers    *)
(* the helpers extract_video_id, fetch_youtube_details and format_duration *)
(* and the handler of the "generate" button (configuration checks, the     *)
(* sheet loop, the row loop, the report).                                  *)
(*                                                                         *)
(* Python strings are sequences of one-character strings.  Literals of the *)
(* source that are written in Japanese are single tokens with an ASCII     *)
(* name (the module is ASCII only); each is listed where it is defined.    *)
(***************************************************************************)
EXTENDS Integers, Sequences, FiniteSets, TLC

VARIABLES
    pc,              \* position of the handler / of the helper under test
    mapping,         \* mapping[k]: column chosen for field k, or NONE_COL
    final_api_key,   \* the API key (a string, possibly empty)
    videos,          \* the platform: id -> [duration, status] of the videos that exist
    first_columns,   \* columns of target_sheets[1] (df_sample.columns), the widget options
    n_sheets,        \* len(target_sheets)
    i,               \* sheet loop index (1-based)
    df,              \* the sheet read by pd.read_excel: [columns, rows]
    id_map,          \* row idx -> extracted id (only rows with an id)
    video_ids,       \* argument of fetch_youtube_details (unique_ids in the handler)
    fi,              \* loop offset i of fetch_youtube_details (0-based)
    results,         \* results dict of fetch_youtube_details being built
    requests,        \* requests of the current call of fetch_youtube_details, in order:
                     \* [ids: the chunk sent, answered: whether execute() returned]
    api_results,     \* value returned by fetch_youtube_details
    r,               \* row loop index (1-based position in df.rows)
    new_data,        \* records of the current sheet
    error_logs_list, \* diagnostics of the run
    output_files,    \* file name (sheet index or "report") -> content
    st_messages,     \* what st.error / st.warning / st.success showed, in order
    fetch_calls,     \* fetch_calls[s]: calls of fetch_youtube_details made for sheet s
    rows_read,       \* rows of the sheets scanned so far in the run
    zip_buffer,      \* the bundle offered for download, or None
    last,            \* what the last step did (kind of step, branch of the row code)
    ex_url,          \* extract_video_id under test: its argument
    ex_result        \* extract_video_id under test: its result

vars == <<pc, mapping, final_api_key, videos, first_columns, n_sheets, i, df, id_map,
          video_ids, fi, results, requests, api_results, r, new_data, error_logs_list,
          output_files, st_messages, fetch_calls, rows_read, zip_buffer, last,
          ex_url, ex_result>>

-----------------------------------------------------------------------------
(* Bounds of the model *)

\* sheets selected in one run
MaxSheets == 3
\* rows scanned in one run, over all its sheets (a skipped sheet's rows do not count)
MaxRows == 2
\* length of the id list given to fetch_youtube_details when it is run on its own
MaxIds == 120

-----------------------------------------------------------------------------
(* Python values *)

\* Python's None ("None" is no single character, so it is no string).
None == <<"None">>

\* A cell of a DataFrame row: a str, the float NaN (an empty cell) or an int.
Str(s) == [kind |-> "str", s |-> s, n |-> 0]
NaN == [kind |-> "nan", s |-> <<>>, n |-> 0]
IntCell(n) == [kind |-> "int", s |-> <<>>, n |-> n]

Digits == <<"0", "1", "2", "3", "4", "5", "6", "7", "8", "9">>

UpperCase == <<"A", "B", "C", "D", "E", "F", "G", "H", "I", "J", "K", "L", "M",
               "N", "O", "P", "Q", "R", "S", "T", "U", "V", "W", "X", "Y", "Z">>

LowerCase == <<"a", "b", "c", "d", "e", "f", "g", "h", "i", "j", "k", "l", "m",
               "n", "o", "p", "q", "r", "s", "t", "u", "v", "w", "x", "y", "z">>

Range(f) == {f[k] : k \in DOMAIN f}

\* str(n) for an int n >= 0
RECURSIVE DecStr(_)
DecStr(n) == IF n < 10 THEN <<Digits[n + 1]>>
             ELSE DecStr(n \div 10) \o <<Digits[(n % 10) + 1]>>

\* str(x) of a cell
PyStr(x) == CASE x.kind = "str" -> x.s
              [] x.kind = "nan" -> <<"n", "a", "n">>
              [] x.kind = "int" -> DecStr(x.n)

\* bool(x) of a cell: an empty str and 0 are false, NaN is true
Truthy(x) == CASE x.kind = "str" -> x.s # <<>>
               [] x.kind = "nan" -> TRUE
               [] x.kind = "int" -> x.n # 0

LowerChar(c) == IF \E k \in 1..26 : UpperCase[k] = c
                THEN LowerCase[CHOOSE k \in 1..26 : UpperCase[k] = c]
                ELSE c

\* s.lower()
Lower(s) == [k \in 1..Len(s) |-> LowerChar(s[k])]

\* first element of a sequence of positions that satisfies nothing else: the least
Min(S) == CHOOSE m \in S : \A k \in S : m <= k

-----------------------------------------------------------------------------
(* extract_video_id *)

\* {11} in the three patterns
IdLen == 11

\* [0-9A-Za-z_-]
IdChars == Range(Digits) \cup Range(UpperCase) \cup Range(LowerCase) \cup {"_", "-"}

\* The patterns: the alternatives of the non-capturing prefix group, in order; each
\* is followed by the capture group ([0-9A-Za-z_-]{11}).  The ".*" that ends the
\* first pattern matches anything and changes neither the match position nor
\* the group.
patterns == << << <<"v", "=">>, <<"/">> >>,
               << <<"y", "o", "u", "t", "u", ".", "b", "e", "/">> >>,
               << <<"e", "m", "b", "e", "d", "/">> >> >>

\* lit occurs in s at position at
LitAt(s, at, lit) ==
    /\ at + Len(lit) - 1 <= Len(s)
    /\ \A k \in 1..Len(lit) : s[at + k - 1] = lit[k]

\* IdLen characters of IdChars start at position at
IdRunAt(s, at) ==
    /\ at + IdLen - 1 <= Len(s)
    /\ \A k \in at..(at + IdLen - 1) : s[k] \in IdChars

\* alternative lit of a pattern matches at position at
AltMatchAt(s, at, lit) == LitAt(s, at, lit) /\ IdRunAt(s, at + Len(lit))

\* positions where the pattern matches
MatchPositions(pattern, s) ==
    {at \in 1..Len(s) : \E a \in 1..Len(pattern) : AltMatchAt(s, at, pattern[a])}

\* re.search(pattern, url).group(1), or None: the leftmost match, and at that
\* position the first alternative that matches
Search(pattern, s) ==
    IF MatchPositions(pattern, s) = {} THEN None
    ELSE LET at == Min(MatchPositions(pattern, s))
             a == Min({b \in 1..Len(pattern) : AltMatchAt(s, at, pattern[b])})
             from == at + Len(pattern[a])
         IN SubSeq(s, from, from + IdLen - 1)

extract_video_id(url) ==
    IF url.kind # "str" THEN None
    ELSE IF \E p \in 1..Len(patterns) : Search(patterns[p], url.s) # None
         THEN Search(patterns[Min({p \in 1..Len(patterns) :
                                     Search(patterns[p], url.s) # None})], url.s)
         ELSE None

-----------------------------------------------------------------------------
(* format_duration *)

\* The tokens of f"{minutes}<fun>{seconds}<byou>" (the two Japanese unit characters
\* of the source, minutes and seconds).
FUN == "<fun>"
BYOU == "<byou>"

DigitValue(c) == (CHOOSE k \in 1..10 : Digits[k] = c) - 1

\* isodate.parse_duration followed by int(total_seconds()), for the encodings
\* P[nD][T[nH][nM][nS]] with whole numbers (the ones the platform returns);
\* -1 stands for the exception parse_duration raises.  The scan keeps the number
\* being read (num, -1 when none), the part (date or time) and the total.
RECURSIVE ScanDuration(_, _, _, _, _)
ScanDuration(s, k, num, inTime, total) ==
    IF k > Len(s) THEN (IF num = -1 THEN total ELSE -1)
    ELSE LET c == s[k] IN
         IF c \in Range(Digits)
         THEN ScanDuration(s, k + 1, (IF num = -1 THEN 0 ELSE num * 10) + DigitValue(c),
                           inTime, total)
         ELSE IF c = "T" /\ ~inTime /\ num = -1
         THEN ScanDuration(s, k + 1, -1, TRUE, total)
         ELSE IF num = -1 THEN -1
         ELSE IF c = "D" /\ ~inTime THEN ScanDuration(s, k + 1, -1, inTime, total + num * 86400)
         ELSE IF c = "H" /\ inTime THEN ScanDuration(s, k + 1, -1, inTime, total + num * 3600)
         ELSE IF c = "M" /\ inTime THEN ScanDuration(s, k + 1, -1, inTime, total + num * 60)
         ELSE IF c = "S" /\ inTime THEN ScanDuration(s, k + 1, -1, inTime, total + num)
         ELSE -1

total_seconds(iso) ==
    IF Len(iso) < 2 \/ iso[1] # "P" THEN -1 ELSE ScanDuration(iso, 2, -1, FALSE, 0)

\* the bare except returns "" for whatever parse_duration raises
format_duration(iso_duration) ==
    LET t == total_seconds(iso_duration)
    IN IF t = -1 THEN <<>>
       ELSE DecStr(t \div 60) \o <<FUN>> \o DecStr(t % 60) \o <<BYOU>>

-----------------------------------------------------------------------------
(* Input data: identifiers, URLs, the platform's videos *)

ID_A == <<"d", "Q", "w", "4", "w", "9", "W", "g", "X", "c", "Q">>
ID_B == <<"a", "_", "1", "-", "Z", "z", "0", "9", "k", "L", "m">>

HTTPS == <<"h", "t", "t", "p", "s", ":", "/", "/">>
WWW == <<"w", "w", "w", ".">>
YOUTUBE_COM == <<"y", "o", "u", "t", "u", "b", "e", ".", "c", "o", "m">>
NOCOOKIE_COM == <<"y", "o", "u", "t", "u", "b", "e", "-", "n", "o", "c", "o", "o", "k",
                  "i", "e", ".", "c", "o", "m">>
YOUTU_BE == <<"y", "o", "u", "t", "u", ".", "b", "e">>
WATCH_V == <<"/", "w", "a", "t", "c", "h", "?", "v", "=">>
WATCH_FEATURE_V == <<"/", "w", "a", "t", "c", "h", "?", "f", "e", "a", "t", "u", "r", "e", "=",
                     "s", "h", "a", "r", "e", "&", "v", "=">>
ATTRIBUTION_V == <<"/", "a", "t", "t", "r", "i", "b", "u", "t", "i", "o", "n", "_", "l", "i",
                   "n", "k", "?", "u", "=", "/", "w", "a", "t", "c", "h", "?", "v", "=">>
EMBED == <<"/", "e", "m", "b", "e", "d", "/">>
SHORTS == <<"/", "s", "h", "o", "r", "t", "s", "/">>
TAIL_T == <<"&", "t", "=", "4", "2", "s">>
TAIL_Q == <<"?", "s", "i", "=", "x">>

Schemes == {<<>>, HTTPS, <<"h", "t", "t", "p", ":", "/", "/">>}
Hosts == {YOUTUBE_COM, WWW \o YOUTUBE_COM, <<"m", ".">> \o YOUTUBE_COM,
          NOCOOKIE_COM, WWW \o NOCOOKIE_COM}
Ids == {ID_A, ID_B}

\* URLs of the three accepted shapes, each with the identifier it embeds:
\* "v=" query parameter or path segment, short-link domain, embed path.
ShapedUrls ==
    {[url |-> Str(sc \o h \o p \o id \o t), shape |-> "param-or-segment", id |-> id] :
        sc \in Schemes, h \in Hosts,
        p \in {WATCH_V, WATCH_FEATURE_V, ATTRIBUTION_V, SHORTS},
        id \in Ids, t \in {<<>>, TAIL_T}}
    \cup {[url |-> Str(sc \o YOUTU_BE \o <<"/">> \o id \o t), shape |-> "short-link", id |-> id] :
        sc \in Schemes, id \in Ids, t \in {<<>>, TAIL_Q}}
    \cup {[url |-> Str(sc \o h \o EMBED \o id \o t), shape |-> "embed", id |-> id] :
        sc \in Schemes, h \in Hosts, id \in Ids, t \in {<<>>, TAIL_Q}}

NOT_A_URL == <<"n", "o", "t", " ", "a", " ", "u", "r", "l">>

\* Strings that match none of the three patterns, and values that are no string.
UnshapedValues ==
    {[url |-> v, shape |-> "none", id |-> None] :
        v \in {Str(<<>>), Str(NOT_A_URL), Str(<<"N", "a", "N">>),
               Str(HTTPS \o WWW \o YOUTUBE_COM), Str(HTTPS \o YOUTU_BE \o <<"/">>),
               Str(HTTPS \o YOUTU_BE \o <<"/">> \o SubSeq(ID_A, 1, IdLen - 1)),
               Str(WATCH_V \o SubSeq(ID_B, 1, IdLen - 1) \o <<"&">>),
               NaN, IntCell(0), IntCell(7)}}

\* Identifier number k of a long id list (k < 1000): "vid_____" and three digits.
MkId(k) == <<"v", "i", "d", "_", "_", "_", "_", "_",
             Digits[(k \div 100) + 1], Digits[((k \div 10) % 10) + 1], Digits[(k % 10) + 1]>>

PUBLIC == <<"p", "u", "b", "l", "i", "c">>
UNLISTED == <<"u", "n", "l", "i", "s", "t", "e", "d">>
PRIVATE == <<"p", "r", "i", "v", "a", "t", "e">>

PT3M33S == <<"P", "T", "3", "M", "3", "3", "S">>
PT1H2M3S == <<"P", "T", "1", "H", "2", "M", "3", "S">>
BAD_DURATION == <<"l", "i", "v", "e">>

Video(d, st) == [duration |-> d, status |-> st]

\* an empty dict
EmptyDict == [x \in {} |-> None]

\* States of the platform the handler is run against (which of the ids exist,
\* with which duration and privacy status).
VideoWorlds ==
    {[id \in {ID_A, ID_B} |-> IF id = ID_A THEN Video(PT3M33S, PUBLIC)
                                           ELSE Video(PT1H2M3S, PRIVATE)],
     [id \in {ID_B} |-> Video(BAD_DURATION, UNLISTED)]}

\* States of the platform for a long id list: every m-th id is missing, the
\* others alternate between public and private.
LongWorld(m) ==
    [id \in {MkId(k) : k \in {j \in 1..MaxIds : j % m # 0}} |->
        LET k == CHOOSE j \in 1..MaxIds : MkId(j) = id
        IN Video(PT3M33S, IF k % 2 = 0 THEN PUBLIC ELSE PRIVATE)]

-----------------------------------------------------------------------------
(* Messages shown to the operator (st.error, st.warning, st.success) *)

Message(level, what) == [level |-> level, what |-> what]

-----------------------------------------------------------------------------
(* fetch_youtube_details(api_key, video_ids) *)

chunk_size == 50

\* Chunk with the slice one element too long: video_ids[i:i+chunk_size+1]
ChunkOneTooLong(ids, off) ==
    SubSeq(ids, off + 1, IF off + chunk_size + 1 < Len(ids) THEN off + chunk_size + 1 ELSE Len(ids))

\* video_ids[i:i+chunk_size] for the 0-based offset i
Chunk(ids, off) ==
    SubSeq(ids, off + 1, IF off + chunk_size < Len(ids) THEN off + chunk_size ELSE Len(ids))

\* response["items"] for a request of the ids of chunk: the platform returns
\* the videos that exist and leaves the others out
ResponseItems(chunk) == {id \in Range(chunk) : id \in DOMAIN videos}

\* results after "results[vid] = {...}" for every item
Merge(res, items) ==
    [id \in DOMAIN res \cup items |-> IF id \in items THEN videos[id] ELSE res[id]]

\* lines 48-52: the guard, and the empty results
FetchEntry ==
    /\ pc = "fetch_call"
    /\ IF final_api_key = "" \/ video_ids = <<>>
       THEN /\ api_results' = EmptyDict
            /\ pc' = "rows"
            /\ r' = 1
            /\ new_data' = <<>>
            /\ UNCHANGED <<results, fi>>
       ELSE /\ results' = EmptyDict
            /\ fi' = 0
            /\ pc' = "fetch_loop"
            /\ UNCHANGED <<api_results, r, new_data>>
    /\ requests' = <<>>
    /\ last' = [step |-> "fetch_entry", branch |-> "-"]
    /\ UNCHANGED <<mapping, final_api_key, videos, first_columns, n_sheets, i, df, id_map,
                   video_ids, error_logs_list, output_files, st_messages, fetch_calls,
                   rows_read, zip_buffer, ex_url, ex_result>>

\* lines 55-71: one iteration whose request is answered
FetchChunkOk ==
    /\ pc = "fetch_loop"
    /\ fi < Len(video_ids)
    /\ requests' = Append(requests, [ids |-> Chunk(video_ids, fi), answered |-> TRUE])
    /\ results' = Merge(results, ResponseItems(Chunk(video_ids, fi)))
    /\ fi' = fi + chunk_size
    /\ last' = [step |-> "fetch_chunk", branch |-> "ok"]
    /\ UNCHANGED <<pc, mapping, final_api_key, videos, first_columns, n_sheets, i, df, id_map,
                   video_ids, api_results, r, new_data, error_logs_list, output_files,
                   st_messages, fetch_calls, rows_read, zip_buffer, ex_url, ex_result>>

\* FetchChunkFail with the handler leaving the loop (a break in the except block)
FetchChunkFailBreaks ==
    /\ pc = "fetch_loop"
    /\ fi < Len(video_ids)
    /\ requests' = Append(requests, [ids |-> Chunk(video_ids, fi), answered |-> FALSE])
    /\ st_messages' = Append(st_messages, Message("error", "api"))
    /\ fi' = Len(video_ids)
    /\ last' = [step |-> "fetch_chunk", branch |-> "fail"]
    /\ UNCHANGED <<pc, mapping, final_api_key, videos, first_columns, n_sheets, i, df, id_map,
                   video_ids, results, api_results, r, new_data, error_logs_list,
                   output_files, fetch_calls, rows_read, zip_buffer, ex_url, ex_result>>

\* lines 55-62, 72-73: one iteration whose request raises
FetchChunkFail ==
    /\ pc = "fetch_loop"
    /\ fi < Len(video_ids)
    /\ requests' = Append(requests, [ids |-> Chunk(video_ids, fi), answered |-> FALSE])
    /\ st_messages' = Append(st_messages, Message("error", "api"))
    /\ fi' = fi + chunk_size
    /\ last' = [step |-> "fetch_chunk", branch |-> "fail"]
    /\ UNCHANGED <<pc, mapping, final_api_key, videos, first_columns, n_sheets, i, df, id_map,
                   video_ids, results, api_results, r, new_data, error_logs_list,
                   output_files, fetch_calls, rows_read, zip_buffer, ex_url, ex_result>>

\* line 75, and line 225 of the caller
FetchReturn ==
    /\ pc = "fetch_loop"
    /\ fi >= Len(video_ids)
    /\ api_results' = results
    /\ pc' = "rows"
    /\ r' = 1
    /\ new_data' = <<>>
    /\ last' = [step |-> "fetch_return", branch |-> "-"]
    /\ UNCHANGED <<mapping, final_api_key, videos, first_columns, n_sheets, i, df, id_map,
                   video_ids, fi, results, requests, error_logs_list, output_files,
                   st_messages, fetch_calls, rows_read, zip_buffer, ex_url, ex_result>>

-----------------------------------------------------------------------------
(* The handler's inputs: the column mapping and the sheets *)

\* the option "(nashi)" of every select box: no column
NONE_COL == "(none)"

Fields == {"entry_number", "entry_name", "instrument", "age", "song", "youtube",
           "duration", "email"}

RequiredFields == {"entry_number", "entry_name", "song", "youtube"}

\* The column a field is mapped to when it is mapped (the columns of the first sheet).
ColumnOf == [k \in Fields |->
    CASE k = "entry_number" -> "No"
      [] k = "entry_name" -> "Name"
      [] k = "instrument" -> "Instrument"
      [] k = "age" -> "Age"
      [] k = "song" -> "Song"
      [] k = "youtube" -> "URL"
      [] k = "duration" -> "Time"
      [] k = "email" -> "Mail"]

AllColumns == Range(ColumnOf)

\* the mapping that leaves the fields of unmapped without a column
MappingWithout(unmapped) == [k \in Fields |-> IF k \in unmapped THEN NONE_COL ELSE ColumnOf[k]]

\* The mappings the operator may have chosen: everything mapped, optional fields
\* left out, and one required field left out.
Mappings ==
    {MappingWithout(u) : u \in {{}, {"duration", "email", "instrument", "age"}}}
    \cup {MappingWithout({k}) : k \in RequiredFields}

\* Values of a cell of the URL column
UrlCells == {NaN, Str(<<>>), Str(<<"N", "a", "N">>), Str(NOT_A_URL),
             Str(YOUTU_BE \o <<"/">> \o ID_A),
             Str(YOUTUBE_COM \o WATCH_V \o ID_B)}

\* The cell of another column: fixed by the column, the sheet and the row.
CellOf(col, sheet, idx) ==
    IF col = "No" THEN IntCell(10 * sheet + idx)
    ELSE Str(<<col, "-">> \o DecStr(sheet) \o <<"-">> \o DecStr(idx))

\* A row of sheet number sheet with index label idx and the given URL cell
RowOf(cols, sheet, idx, urlcell) ==
    [c \in cols |-> IF c = "URL" THEN urlcell ELSE CellOf(c, sheet, idx)]

\* The sheets pd.read_excel may return for sheet number sheet: the first sheet has
\* the columns the mapping was chosen from; another sheet may lack one.
\* A sheet has at least one row while the run's budget of scanned rows lasts,
\* and at most budget rows.
ColumnSets(sheet) ==
    IF sheet = 1 THEN {first_columns}
    ELSE {first_columns} \cup {first_columns \ {c} : c \in {"URL", "Mail"}}

UrlColumns(n) == [1..n -> UrlCells]

Sheets(sheet, budget) ==
    {[columns |-> cols,
      rows |-> [p \in 1..Len(urls) |-> RowOf(cols, sheet, p - 1, urls[p])]] :
        cols \in ColumnSets(sheet),
        urls \in UNION {UrlColumns(n) : n \in (IF budget = 0 THEN {0} ELSE 1..budget)}}

-----------------------------------------------------------------------------
(* The handler of the generate button: lines 188-475 *)

\* Tokens for the Japanese literals of the row code:
\*   SAISEI            "saisei" (play), the text of the link column
\*   FUMEI             "fumei" (unknown), the e-mail when no column is mapped
\*   SENTINEL_BLOCKED  "[saisei fuka] you kakunin" (not playable, needs review)
\*   SENTINEL_INVALID  "[mukou] you kakunin" (invalid, needs review)
SAISEI == <<"<saisei>">>
FUMEI == <<"<fumei>">>
SENTINEL_BLOCKED == <<"[", "<saisei-fuka>", "]", "<you-kakunin>">>
SENTINEL_INVALID == <<"[", "<mukou>", "]", "<you-kakunin>">>

\* BlockedReason without the status in the message
BlockedReasonNoStatus(status) == <<"<douga-settei-ga>", "[", "]", "<no-tame-saisei-dekimasen>">>

\* f"douga settei ga [{status}] no tame saisei dekimasen"
\* (the video's setting is [status], so it cannot be played)
BlockedReason(status) == <<"<douga-settei-ga>", "[">> \o status \o <<"]", "<no-tame-saisei-dekimasen>">>
\* "douga ga mitsukarimasen (sakujo mata wa ID mukou)" (video not found)
NOT_FOUND_REASON == <<"<douga-ga-mitsukarimasen>", "(", "<sakujo-mata-wa-ID-mukou>", ")">>
\* "URL no keishiki ga fumei desu" (the URL's format is not recognised)
MALFORMED_REASON == <<"U", "R", "L", "<no-keishiki-ga-fumei-desu>">>

\* row[mapping[k]] if mapping[k] != NONE_COL else dflt
Field(row, k, dflt) == IF mapping[k] # NONE_COL THEN row[mapping[k]] ELSE dflt

\* lines 204-207
missing_cols(d) == {mapping[k] : k \in {f \in Fields : mapping[f] # NONE_COL /\ mapping[f] \notin d.columns}}

\* ScanIds keyed by the row's position (1-based) instead of its index label
ScanIdsByPosition(d) ==
    IF mapping["youtube"] # NONE_COL
    THEN LET vid(p) == extract_video_id(d.rows[p][mapping["youtube"]])
             hit == {p \in 1..Len(d.rows) : vid(p) # None /\ vid(p) # <<>>}
         IN [idx \in hit |-> vid(idx)]
    ELSE EmptyDict

\* lines 214-220: idx -> vid for the rows an id is extracted from ("if vid:")
ScanIds(d) ==
    IF mapping["youtube"] # NONE_COL
    THEN LET vid(p) == extract_video_id(d.rows[p][mapping["youtube"]])
             hit == {p \in 1..Len(d.rows) : vid(p) # None /\ vid(p) # <<>>}
         IN [idx \in {p - 1 : p \in hit} |-> vid(idx + 1)]
    ELSE EmptyDict

\* list(set(...)): the elements of S once each, in any order
ListsOf(S) == {l \in [1..Cardinality(S) -> S] : Range(l) = S}

\* HasUrl without .lower(): "NaN" and "NAN" count as URLs
HasUrlCaseSensitive(youtube_url) ==
    Truthy(youtube_url) /\ PyStr(youtube_url) # <<"n", "a", "n">>

\* line 237: youtube_url and str(youtube_url).lower() != "nan"
HasUrl(youtube_url) == Truthy(youtube_url) /\ Lower(PyStr(youtube_url)) # <<"n", "a", "n">>

\* UrlUnrecognised without the "nan" test: elif youtube_url
UrlUnrecognisedNoNanTest(youtube_url) == Truthy(youtube_url)

\* line 273: youtube_url and not str(youtube_url).lower() == "nan"
UrlUnrecognised(youtube_url) ==
    Truthy(youtube_url) /\ ~(Lower(PyStr(youtube_url)) = <<"n", "a", "n">>)

\* video_link_text set only when an id can be extracted from the URL
video_link_text_if_id(youtube_url) ==
    IF HasUrl(youtube_url) /\ extract_video_id(youtube_url) # None THEN Str(SAISEI) ELSE Str(<<>>)

\* line 237
video_link_text(youtube_url) == IF HasUrl(youtube_url) THEN Str(SAISEI) ELSE Str(<<>>)

\* line 246: status in ['public', 'unlisted']
Playable(status) == status \in {PUBLIC, UNLISTED}

\* the dict appended to error_logs_list
Diagnostic(sheet, row, reason) ==
    [type |-> "error",
     dept |-> sheet,
     no |-> Field(row, "entry_number", Str(<<>>)),
     name |-> Field(row, "entry_name", Str(<<>>)),
     reason |-> reason,
     url |-> Field(row, "youtube", Str(<<>>)),
     email |-> Field(row, "email", Str(FUMEI))]

\* lines 232-283: the branch taken for the row, its duration_text and what it
\* appends to error_logs_list
Classify(sheet, row, idx) ==
    LET youtube_url == Field(row, "youtube", Str(<<>>))
        fallback == Field(row, "duration", Str(<<>>))
    IN IF idx \in DOMAIN id_map
       THEN LET vid == id_map[idx] IN
            IF vid \in DOMAIN api_results
            THEN LET status == api_results[vid].status IN
                 IF Playable(status)
                 THEN [branch |-> "ok",
                       duration_text |-> Str(format_duration(api_results[vid].duration)),
                       logs |-> <<>>]
                 ELSE [branch |-> "blocked",
                       duration_text |-> Str(SENTINEL_BLOCKED),
                       logs |-> <<Diagnostic(sheet, row, BlockedReason(status))>>]
            ELSE [branch |-> "notfound",
                  duration_text |-> Str(SENTINEL_INVALID),
                  logs |-> <<Diagnostic(sheet, row, NOT_FOUND_REASON)>>]
       ELSE IF UrlUnrecognised(youtube_url)
            THEN [branch |-> "malformed",
                  duration_text |-> fallback,
                  logs |-> <<Diagnostic(sheet, row, MALFORMED_REASON)>>]
            ELSE [branch |-> "none", duration_text |-> fallback, logs |-> <<>>]

\* "absent": the record has no instrument key
ABSENT == [kind |-> "absent", s |-> <<>>, n |-> 0]

\* Record with the raw duration column instead of duration_text
RecordRawDuration(sheet, row, duration_text) ==
    [dept |-> sheet,
     no |-> Field(row, "entry_number", Str(<<>>)),
     name |-> Field(row, "entry_name", Str(<<>>)),
     age |-> Field(row, "age", Str(<<>>)),
     song |-> Field(row, "song", Str(<<>>)),
     video |-> video_link_text(Field(row, "youtube", Str(<<>>))),
     url |-> Field(row, "youtube", Str(<<>>)),
     duration_text |-> Field(row, "duration", Str(<<>>)),
     instrument |-> Field(row, "instrument", ABSENT),
     score |-> Str(<<>>),
     comment |-> Str(<<>>)]

\* lines 286-300: the record of the row
Record(sheet, row, duration_text) ==
    [dept |-> sheet,
     no |-> Field(row, "entry_number", Str(<<>>)),
     name |-> Field(row, "entry_name", Str(<<>>)),
     age |-> Field(row, "age", Str(<<>>)),
     song |-> Field(row, "song", Str(<<>>)),
     video |-> video_link_text(Field(row, "youtube", Str(<<>>))),
     url |-> Field(row, "youtube", Str(<<>>)),
     duration_text |-> duration_text,
     instrument |-> Field(row, "instrument", ABSENT),
     score |-> Str(<<>>),
     comment |-> Str(<<>>)]

\* names of the files of the bundle
SheetFile(sheet) == <<"xlsx", sheet>>
ReportFile == <<"txt", 0>>

NoZip == [offered |-> FALSE, files |-> EmptyDict]

Put(files, name, content) ==
    [f \in DOMAIN files \cup {name} |-> IF f = name THEN content ELSE files[f]]

\* lines 423-443: the lines of the report
RECURSIVE LogBlocks(_)
LogBlocks(logs) ==
    IF logs = <<>> THEN <<>>
    ELSE << <<"who", Head(logs).dept, Head(logs).no, Head(logs).name>>,
            <<"status", Head(logs).reason>>,
            <<"url", Head(logs).url>>,
            <<"email", Head(logs).email>>,
            <<"blank">> >> \o LogBlocks(Tail(logs))

\* log_lines listing the newest diagnostic first
log_lines_newest_first(logs) ==
    << <<"title">>, <<"checked-at">>, <<"rule">>, <<"needs-review">>, <<"rule">> >>
    \o (IF logs # <<>>
        THEN LogBlocks([k \in 1..Len(logs) |-> logs[Len(logs) + 1 - k]])
        ELSE << <<"none-found">> >>)
    \o << <<"rule">>, <<"confirmed">>, <<"rule">>, <<"others-ok">> >>

log_lines(logs) ==
    << <<"title">>, <<"checked-at">>, <<"rule">>, <<"needs-review">>, <<"rule">> >>
    \o (IF logs # <<>> THEN LogBlocks(logs) ELSE << <<"none-found">> >>)
    \o << <<"rule">>, <<"confirmed">>, <<"rule">>, <<"others-ok">> >>

HandlerUnchangedInputs == UNCHANGED <<mapping, final_api_key, videos, first_columns, n_sheets,
                                      ex_url, ex_result>>

FetchIdle == UNCHANGED <<video_ids, fi, results, requests, api_results>>

\* lines 189-190: a required field has no column
ConfigNoColumn ==
    /\ pc = "start"
    /\ \E k \in RequiredFields : mapping[k] = NONE_COL
    /\ st_messages' = Append(st_messages, Message("error", "required-columns"))
    /\ pc' = "done"
    /\ last' = [step |-> "config_error", branch |-> "columns"]
    /\ HandlerUnchangedInputs /\ FetchIdle
    /\ UNCHANGED <<i, df, id_map, r, new_data, error_logs_list, output_files, fetch_calls,
                   rows_read, zip_buffer>>

\* lines 191-192: no API key
ConfigNoKey ==
    /\ pc = "start"
    /\ \A k \in RequiredFields : mapping[k] # NONE_COL
    /\ final_api_key = ""
    /\ st_messages' = Append(st_messages, Message("error", "api-key"))
    /\ pc' = "done"
    /\ last' = [step |-> "config_error", branch |-> "key"]
    /\ HandlerUnchangedInputs /\ FetchIdle
    /\ UNCHANGED <<i, df, id_map, r, new_data, error_logs_list, output_files, fetch_calls,
                   rows_read, zip_buffer>>

\* lines 193-201: the run starts
Begin ==
    /\ pc = "start"
    /\ \A k \in RequiredFields : mapping[k] # NONE_COL
    /\ final_api_key # ""
    /\ output_files' = EmptyDict
    /\ error_logs_list' = <<>>
    /\ i' = 1
    /\ pc' = "sheet"
    /\ last' = [step |-> "begin", branch |-> "-"]
    /\ HandlerUnchangedInputs /\ FetchIdle
    /\ UNCHANGED <<df, id_map, r, new_data, st_messages, fetch_calls, rows_read, zip_buffer>>

\* line 202: pd.read_excel returns the sheet
ReadSheet ==
    /\ pc = "sheet"
    /\ i <= n_sheets
    /\ df' \in Sheets(i, MaxRows - rows_read)
    /\ pc' = "read"
    /\ last' = [step |-> "read", branch |-> "-"]
    /\ HandlerUnchangedInputs /\ FetchIdle
    /\ UNCHANGED <<i, id_map, r, new_data, error_logs_list, output_files, st_messages,
                   fetch_calls, rows_read, zip_buffer>>

\* Abort that still offers the workbooks of the sheets completed so far
AbortOffersCompleted ==
    /\ st_messages' = Append(st_messages, Message("error", "exception"))
    /\ pc' = "aborted"
    /\ zip_buffer' = [offered |-> TRUE, files |-> output_files]
    /\ HandlerUnchangedInputs /\ FetchIdle
    /\ UNCHANGED <<i, df, id_map, r, new_data, error_logs_list, output_files, fetch_calls,
                   rows_read>>

\* lines 474-475: an exception inside the try block ends the run; nothing is
\* offered for download
Abort ==
    /\ st_messages' = Append(st_messages, Message("error", "exception"))
    /\ pc' = "aborted"
    /\ HandlerUnchangedInputs /\ FetchIdle
    /\ UNCHANGED <<i, df, id_map, r, new_data, error_logs_list, output_files, fetch_calls,
                   rows_read, zip_buffer>>

\* line 202: pd.read_excel raises
ReadFails ==
    /\ pc = "sheet"
    /\ i <= n_sheets
    /\ last' = [step |-> "abort", branch |-> "read"]
    /\ Abort

\* SkipSheet with break in place of continue: the sheet loop ends
SkipSheetBreaks ==
    /\ pc = "read"
    /\ missing_cols(df) # {}
    /\ st_messages' = Append(st_messages, Message("warning", "skipped"))
    /\ i' = n_sheets + 1
    /\ pc' = "sheet"
    /\ last' = [step |-> "skip", branch |-> "-"]
    /\ HandlerUnchangedInputs /\ FetchIdle
    /\ UNCHANGED <<df, id_map, r, new_data, error_logs_list, output_files, fetch_calls,
                   rows_read, zip_buffer>>

\* lines 209-211: a mapped column is missing, the sheet is skipped
SkipSheet ==
    /\ pc = "read"
    /\ missing_cols(df) # {}
    /\ st_messages' = Append(st_messages, Message("warning", "skipped"))
    /\ i' = i + 1
    /\ pc' = "sheet"
    /\ last' = [step |-> "skip", branch |-> "-"]
    /\ HandlerUnchangedInputs /\ FetchIdle
    /\ UNCHANGED <<df, id_map, r, new_data, error_logs_list, output_files, fetch_calls,
                   rows_read, zip_buffer>>

\* ScanSheet passing list(id_map.values()), one id per row, instead of the set
ScanSheetEveryRow ==
    /\ pc = "read"
    /\ missing_cols(df) = {}
    /\ id_map' = ScanIds(df)
    /\ video_ids' = SelectSeq([p \in 1..Len(df.rows) |->
                                 extract_video_id(df.rows[p][mapping["youtube"]])],
                              LAMBDA v : v # None /\ v # <<>>)
    /\ fetch_calls' = [fetch_calls EXCEPT ![i] = @ + 1]
    /\ rows_read' = rows_read + Len(df.rows)
    /\ pc' = "fetch_call"
    /\ last' = [step |-> "scan", branch |-> "-"]
    /\ HandlerUnchangedInputs
    /\ UNCHANGED <<i, df, fi, results, requests, api_results, r, new_data, error_logs_list,
                   output_files, st_messages, zip_buffer>>

\* lines 213-223: the ids of the sheet, and the call of fetch_youtube_details
ScanSheet ==
    /\ pc = "read"
    /\ missing_cols(df) = {}
    /\ id_map' = ScanIds(df)
    /\ video_ids' \in ListsOf(Range(ScanIds(df)))
    /\ fetch_calls' = [fetch_calls EXCEPT ![i] = @ + 1]
    /\ rows_read' = rows_read + Len(df.rows)
    /\ pc' = "fetch_call"
    /\ last' = [step |-> "scan", branch |-> "-"]
    /\ HandlerUnchangedInputs
    /\ UNCHANGED <<i, df, fi, results, requests, api_results, r, new_data, error_logs_list,
                   output_files, st_messages, zip_buffer>>

\* lines 226-302: one row
Row ==
    /\ pc = "rows"
    /\ r <= Len(df.rows)
    /\ LET c == Classify(i, df.rows[r], r - 1) IN
        /\ error_logs_list' = error_logs_list \o c.logs
        /\ new_data' = Append(new_data, Record(i, df.rows[r], c.duration_text))
        /\ last' = [step |-> "row", branch |-> c.branch]
    /\ r' = r + 1
    /\ HandlerUnchangedInputs /\ FetchIdle
    /\ UNCHANGED <<pc, i, df, id_map, output_files, st_messages, fetch_calls, rows_read,
                   zip_buffer>>

\* lines 304-419: the workbook of the sheet is built and kept
WriteSheet ==
    /\ pc = "rows"
    /\ r > Len(df.rows)
    /\ output_files' = Put(output_files, SheetFile(i), new_data)
    /\ i' = i + 1
    /\ pc' = "sheet"
    /\ last' = [step |-> "write", branch |-> "-"]
    /\ HandlerUnchangedInputs /\ FetchIdle
    /\ UNCHANGED <<df, id_map, r, new_data, error_logs_list, st_messages, fetch_calls,
                   rows_read, zip_buffer>>

\* lines 304-417: building or saving the workbook raises
WriteFails ==
    /\ pc = "rows"
    /\ r > Len(df.rows)
    /\ last' = [step |-> "abort", branch |-> "write"]
    /\ Abort

\* lines 421-472: the report, the bundle and the download button
Report ==
    /\ pc = "sheet"
    /\ i > n_sheets
    /\ output_files' = Put(output_files, ReportFile, log_lines(error_logs_list))
    /\ zip_buffer' = [offered |-> TRUE, files |-> output_files']
    /\ st_messages' = st_messages \o <<Message("success", "done")>>
                      \o (IF error_logs_list # <<>>
                          THEN <<Message("error", "problems-found")>> ELSE <<>>)
    /\ pc' = "done"
    /\ last' = [step |-> "report", branch |-> "-"]
    /\ HandlerUnchangedInputs /\ FetchIdle
    /\ UNCHANGED <<i, df, id_map, r, new_data, error_logs_list, fetch_calls, rows_read>>

-----------------------------------------------------------------------------
(* The run of the handler *)

EmptySheet == [columns |-> {}, rows |-> <<>>]

Init ==
    /\ pc = "start"
    /\ mapping \in Mappings
    /\ final_api_key \in {"", "KEY"}
    /\ videos \in VideoWorlds
    /\ first_columns = AllColumns
    /\ n_sheets \in 1..MaxSheets
    /\ i = 0
    /\ df = EmptySheet
    /\ id_map = EmptyDict
    /\ video_ids = <<>>
    /\ fi = 0
    /\ results = EmptyDict
    /\ requests = <<>>
    /\ api_results = EmptyDict
    /\ r = 0
    /\ new_data = <<>>
    /\ error_logs_list = <<>>
    /\ output_files = EmptyDict
    /\ st_messages = <<>>
    /\ fetch_calls = [s \in 1..MaxSheets |-> 0]
    /\ rows_read = 0
    /\ zip_buffer = NoZip
    /\ last = [step |-> "init", branch |-> "-"]
    /\ ex_url = [url |-> NaN, shape |-> "none", id |-> None]
    /\ ex_result = None

Next ==
    \/ ConfigNoColumn
    \/ ConfigNoKey
    \/ Begin
    \/ ReadSheet
    \/ ReadFails
    \/ SkipSheet
    \/ ScanSheet
    \/ FetchEntry
    \/ FetchChunkOk
    \/ FetchChunkFail
    \/ FetchReturn
    \/ Row
    \/ WriteSheet
    \/ WriteFails
    \/ Report

Spec == Init /\ [][Next]_vars

-----------------------------------------------------------------------------
(* extract_video_id run on its own *)

Extract ==
    /\ pc = "extract_call"
    /\ ex_result' = extract_video_id(ex_url.url)
    /\ pc' = "extract_ret"
    /\ UNCHANGED <<mapping, final_api_key, videos, first_columns, n_sheets, i, df, id_map,
                   video_ids, fi, results, requests, api_results, r, new_data,
                   error_logs_list, output_files, st_messages, fetch_calls, rows_read,
                   zip_buffer, last, ex_url>>

Idle ==
    /\ mapping = MappingWithout({})
    /\ first_columns = AllColumns
    /\ n_sheets = 1
    /\ i = 0
    /\ df = EmptySheet
    /\ id_map = EmptyDict
    /\ fi = 0
    /\ results = EmptyDict
    /\ requests = <<>>
    /\ api_results = EmptyDict
    /\ r = 0
    /\ new_data = <<>>
    /\ error_logs_list = <<>>
    /\ output_files = EmptyDict
    /\ st_messages = <<>>
    /\ fetch_calls = [s \in 1..MaxSheets |-> 0]
    /\ rows_read = 0
    /\ zip_buffer = NoZip
    /\ last = [step |-> "init", branch |-> "-"]

InitExtract ==
    /\ pc = "extract_call"
    /\ ex_url \in ShapedUrls \cup UnshapedValues
    /\ ex_result = None
    /\ final_api_key = "KEY"
    /\ videos = EmptyDict
    /\ video_ids = <<>>
    /\ Idle

NextExtract == Extract

SpecExtract == InitExtract /\ [][NextExtract]_vars

-----------------------------------------------------------------------------
(* fetch_youtube_details run on its own, on lists of up to MaxIds ids *)

InitFetch ==
    /\ pc = "fetch_call"
    /\ final_api_key \in {"", "KEY"}
    /\ \E n \in 0..MaxIds : video_ids = [k \in 1..n |-> MkId(k)]
    /\ videos \in {LongWorld(m) : m \in {1, 3}}
    /\ ex_url = [url |-> NaN, shape |-> "none", id |-> None]
    /\ ex_result = None
    /\ Idle

NextFetch ==
    \/ FetchEntry
    \/ FetchChunkOk
    \/ FetchChunkFail
    \/ FetchReturn

SpecFetch == InitFetch /\ [][NextFetch]_vars

-----------------------------------------------------------------------------
(* Claims *)

\* the ids of the requests of the current call, in the order sent
RECURSIVE SentIds(_)
SentIds(reqs) == IF reqs = <<>> THEN <<>> ELSE Head(reqs).ids \o SentIds(Tail(reqs))

\* C3: for every URL of one of the three accepted shapes extract_video_id returns
\* the 11-character identifier the URL embeds, and for every value that matches no
\* rule or is no string it returns None.  (Stated as the claim states it; the
\* code returns an earlier 11-character run for some URLs.)
C3_ExtractsEmbeddedId ==
    pc = "extract_ret" => ex_result = ex_url.id

\* C5: for a non-empty list of n ids and a non-empty key, the call sends exactly
\* ceil(n/50) requests of at most 50 ids each, which are consecutive slices of the
\* list and together are the list (120 ids: 50, 50, 20); with an empty key or an
\* empty list it sends no request and returns an empty mapping.
C5_ChunksPartitionIds ==
    pc = "rows" =>
        LET n == Len(video_ids) IN
        IF final_api_key # "" /\ n > 0
        THEN /\ Len(requests) = (n + 49) \div 50
             /\ \A k \in 1..Len(requests) :
                    /\ Len(requests[k].ids) <= 50
                    /\ requests[k].ids = SubSeq(video_ids, 50 * (k - 1) + 1,
                                                IF 50 * k < n THEN 50 * k ELSE n)
             /\ SentIds(requests) = video_ids
             /\ n = 120 => <<Len(requests[1].ids), Len(requests[2].ids),
                             Len(requests[3].ids)>> = <<50, 50, 20>>
        ELSE requests = <<>> /\ api_results = EmptyDict

\* C5 witness: a call with 120 ids has returned after three requests
C5_Witness ==
    /\ pc = "rows"
    /\ Len(video_ids) = 120
    /\ Len(requests) = 3
    /\ Len(requests[3].ids) = 20

\* a step in which a request was sent and raised
RequestFailed ==
    /\ Len(requests') = Len(requests) + 1
    /\ ~requests'[Len(requests')].answered

\* C4: when the request for a chunk fails, the failure is shown to the operator,
\* the results are left as they were and the loop goes on; when the call has
\* returned, every chunk of the list has been requested, no id of a failed chunk
\* is in the returned mapping and every existing video of an answered chunk is.
C4_ChunkFailureTolerated ==
    [][/\ RequestFailed =>
            /\ st_messages' = Append(st_messages, Message("error", "api"))
            /\ results' = results
            /\ pc' = "fetch_loop"
            /\ fi' = fi + 50
       /\ (pc' = "rows" /\ requests' # <<>>) =>
            /\ SentIds(requests') = video_ids'
            /\ \A k \in 1..Len(requests') :
                IF requests'[k].answered
                THEN \A id \in Range(requests'[k].ids) \cap DOMAIN videos' :
                        id \in DOMAIN api_results' /\ api_results'[id] = videos'[id]
                ELSE Range(requests'[k].ids) \cap DOMAIN api_results' = {}]_vars

\* C4 witness: the call has returned; a request failed and the next one was
\* answered and its videos are in the mapping
C4_Witness ==
    /\ pc = "rows"
    /\ \E k \in 1..(Len(requests) - 1) :
        /\ ~requests[k].answered
        /\ requests[k + 1].answered
        /\ Range(requests[k + 1].ids) \cap DOMAIN api_results # {}

-----------------------------------------------------------------------------
(* Claims about the row loop *)

\* the state before the step that processes row r of the current sheet
RowPre == pc = "rows" /\ r <= Len(df.rows)

\* the raw video_url value of that row ("" when the field is unmapped)
CurUrl == IF mapping["youtube"] = NONE_COL THEN Str(<<>>) ELSE df.rows[r][mapping["youtube"]]

\* the raw duration column value of that row, "" when the column is unmapped
CurFallback == IF mapping["duration"] = NONE_COL THEN Str(<<>>) ELSE df.rows[r][mapping["duration"]]

\* the value is empty (an empty string, or 0)
IsEmptyValue(u) == (u.kind = "str" /\ u.s = <<>>) \/ (u.kind = "int" /\ u.n = 0)

\* the value reads "nan" in any letter case (the NaN of an empty cell does)
IsNanText(u) == Lower(PyStr(u)) = <<"n", "a", "n">>

\* a video_url value is given: mapped, non-empty and not "nan"
UrlGiven == mapping["youtube"] # NONE_COL /\ ~IsEmptyValue(CurUrl) /\ ~IsNanText(CurUrl)

\* the step appended exactly k diagnostics and kept the earlier ones
AppendedLogs(k) ==
    /\ Len(error_logs_list') = Len(error_logs_list) + k
    /\ SubSeq(error_logs_list', 1, Len(error_logs_list)) = error_logs_list

\* the step appended one record to the sheet's output rows and kept the earlier ones
AppendedRecord ==
    /\ Len(new_data') = Len(new_data) + 1
    /\ SubSeq(new_data', 1, Len(new_data)) = new_data

NewRecord == new_data'[Len(new_data')]
NewLog == error_logs_list'[Len(error_logs_list')]

\* sub occurs in s
Contains(s, sub) ==
    \E k \in 1..(Len(s) - Len(sub) + 1) : SubSeq(s, k, k + Len(sub) - 1) = sub

Sentinels == {Str(SENTINEL_BLOCKED), Str(SENTINEL_INVALID)}

\* the step that keeps the workbook of the current sheet
WriteStep == pc = "rows" /\ r > Len(df.rows) /\ pc' = "sheet"

\* C1: a row whose video_url is given falls into exactly one of Ok, Blocked,
\* NotFound, MalformedUrl: one of the first three when an identifier is extracted
\* from it, MalformedUrl when none is; a row whose video_url is empty, "nan" or
\* unmapped falls into none.  The row appends exactly one diagnostic when it is
\* Blocked, NotFound or MalformedUrl and none otherwise.
C1_ClassificationTotalExclusive ==
    [][RowPre =>
        /\ (UrlGiven /\ extract_video_id(CurUrl) # None)
              => last'.branch \in {"ok", "blocked", "notfound"}
        /\ (UrlGiven /\ extract_video_id(CurUrl) = None) => last'.branch = "malformed"
        /\ ~UrlGiven => last'.branch = "none"
        /\ last'.branch \in {"blocked", "notfound", "malformed"} => AppendedLogs(1)
        /\ last'.branch \in {"ok", "none"} => error_logs_list' = error_logs_list]_vars

\* C1 witness: the second row of a sheet was MalformedUrl and is the only row of
\* the run with a diagnostic
C1_Witness ==
    /\ last.step = "row"
    /\ last.branch = "malformed"
    /\ Len(new_data) = 2
    /\ Len(error_logs_list) = 1

\* C2 as stated: every non-Ok row (MalformedUrl, NotFound, Blocked) leaves the
\* run going, appends a diagnostic, is in the sheet's output and has a sentinel
\* duration value.
C2_NonOkRowsHaveSentinel ==
    [][(RowPre /\ last'.branch \in {"malformed", "notfound", "blocked"}) =>
        /\ pc' = "rows"
        /\ AppendedLogs(1)
        /\ AppendedRecord
        /\ NewRecord.duration_text \in Sentinels]_vars

\* C2 amended: every non-Ok row leaves the run going, appends a diagnostic and is
\* in the sheet's output (the rows kept for the sheet are the rows written to its
\* workbook); a NotFound or Blocked row has a sentinel duration value, a
\* MalformedUrl row keeps the raw duration column value ("" when unmapped).
C2_NonOkRowsRecorded ==
    [][/\ (RowPre /\ last'.branch \in {"malformed", "notfound", "blocked"}) =>
            /\ pc' = "rows"
            /\ AppendedLogs(1)
            /\ AppendedRecord
            /\ NewRecord.url = CurUrl
            /\ last'.branch \in {"notfound", "blocked"} => NewRecord.duration_text \in Sentinels
            /\ last'.branch = "malformed" => NewRecord.duration_text = CurFallback
       /\ WriteStep =>
            /\ Len(new_data) = Len(df.rows)
            /\ SheetFile(i) \in DOMAIN output_files'
            /\ output_files'[SheetFile(i)] = new_data]_vars

\* C2 witness: the bundle is offered and holds a sheet whose rows include one with
\* a sentinel duration and one MalformedUrl row with the raw duration value
C2_Witness ==
    /\ zip_buffer.offered
    /\ Len(error_logs_list) = 2
    /\ \E f \in DOMAIN zip_buffer.files :
        /\ f[1] = "xlsx"
        /\ Len(zip_buffer.files[f]) = 2
        /\ zip_buffer.files[f][1].duration_text \in Sentinels
        /\ zip_buffer.files[f][2].url = Str(NOT_A_URL)
        /\ zip_buffer.files[f][2].duration_text \notin Sentinels \cup {Str(<<>>)}

\* C6: a row whose extracted identifier is in the sheet's metadata table with a
\* status other than public and unlisted is Blocked: its duration text is the
\* not-playable sentinel whatever the raw duration column holds, and exactly one
\* diagnostic is appended, whose reason contains the status.
C6_BlockedRows ==
    [][(/\ RowPre
        /\ extract_video_id(CurUrl) # None
        /\ extract_video_id(CurUrl) \in DOMAIN api_results
        /\ api_results[extract_video_id(CurUrl)].status \notin {PUBLIC, UNLISTED}) =>
            /\ last'.branch = "blocked"
            /\ AppendedRecord
            /\ NewRecord.duration_text = Str(SENTINEL_BLOCKED)
            /\ AppendedLogs(1)
            /\ Contains(NewLog.reason, api_results[extract_video_id(CurUrl)].status)]_vars

\* C6 witness: a row with a raw duration value was Blocked for a private video
C6_Witness ==
    /\ last.step = "row"
    /\ last.branch = "blocked"
    /\ mapping["duration"] # NONE_COL
    /\ new_data[Len(new_data)].duration_text = Str(SENTINEL_BLOCKED)
    /\ Contains(error_logs_list[Len(error_logs_list)].reason, PRIVATE)

\* C7: a row whose identifier was extracted but is not in the sheet's fetched
\* metadata table (also when the request of its chunk failed) is NotFound: its
\* duration text is the invalid sentinel and exactly one diagnostic with the
\* not-found reason is appended.
C7_NotFoundRows ==
    [][(/\ RowPre
        /\ extract_video_id(CurUrl) # None
        /\ extract_video_id(CurUrl) \notin DOMAIN api_results) =>
            /\ last'.branch = "notfound"
            /\ AppendedRecord
            /\ NewRecord.duration_text = Str(SENTINEL_INVALID)
            /\ AppendedLogs(1)
            /\ NewLog.reason = NOT_FOUND_REASON]_vars

\* C7 witness: a row was NotFound although its video exists: the request failed
C7_Witness ==
    /\ last.step = "row"
    /\ last.branch = "notfound"
    /\ requests # <<>>
    /\ ~requests[1].answered
    /\ new_data[Len(new_data)].duration_text = Str(SENTINEL_INVALID)
    /\ extract_video_id(new_data[Len(new_data)].url) \in DOMAIN videos

\* C8: a row whose video_url is given but yields no identifier is MalformedUrl:
\* one diagnostic with the unrecognised-format reason is appended, the duration
\* text is the raw duration column value ("" when unmapped) and the link text
\* ("saisei") is set.
C8_MalformedRows ==
    [][(RowPre /\ UrlGiven /\ extract_video_id(CurUrl) = None) =>
            /\ last'.branch = "malformed"
            /\ AppendedLogs(1)
            /\ NewLog.reason = MALFORMED_REASON
            /\ NewLog.url = CurUrl
            /\ AppendedRecord
            /\ NewRecord.duration_text = CurFallback
            /\ NewRecord.video = Str(SAISEI)]_vars

\* C8 witness: a MalformedUrl row with a raw duration value
C8_Witness ==
    /\ last.step = "row"
    /\ last.branch = "malformed"
    /\ mapping["duration"] # NONE_COL
    /\ new_data[Len(new_data)].video = Str(SAISEI)
    /\ new_data[Len(new_data)].duration_text # Str(<<>>)
    /\ error_logs_list[Len(error_logs_list)].reason = MALFORMED_REASON

\* C9: a row whose video_url is unmapped, empty or "nan" in any letter case
\* leaves the diagnostics as they are, has the raw duration column value as its
\* duration text ("" when unmapped) and an empty link text.
C9_VacuousRows ==
    [][(RowPre /\ ~UrlGiven) =>
            /\ error_logs_list' = error_logs_list
            /\ AppendedRecord
            /\ NewRecord.duration_text = CurFallback
            /\ NewRecord.video = Str(<<>>)]_vars

\* C9 witness: after a row with a diagnostic, a row whose URL reads "NaN" was
\* processed with the duration column unmapped
C9_Witness ==
    /\ last.step = "row"
    /\ last.branch = "none"
    /\ Len(error_logs_list) = 1
    /\ Len(new_data) = 2
    /\ new_data[2].url = Str(<<"N", "a", "N">>)
    /\ new_data[2].duration_text = Str(<<>>)

-----------------------------------------------------------------------------
(* Claims about the sheet loop *)

\* the sheet just read lacks a column the mapping names
LacksMappedColumn ==
    pc = "read" /\ \E k \in Fields : mapping[k] # NONE_COL /\ mapping[k] \notin df.columns

\* C10: a sheet that lacks a mapped column is skipped: no fetch is made for it,
\* none of its rows is classified, it adds no diagnostic and no output file, and
\* the run goes on with the next sheet; the bundle holds a workbook exactly for
\* the sheets a fetch was made for.
C10_SheetWithoutColumnSkipped ==
    [][/\ LacksMappedColumn =>
            /\ pc' = "sheet"
            /\ i' = i + 1
            /\ fetch_calls' = fetch_calls
            /\ fetch_calls[i] = 0
            /\ UNCHANGED <<requests, results, api_results, id_map, r, new_data,
                           error_logs_list, output_files, zip_buffer>>
            /\ SheetFile(i) \notin DOMAIN output_files'
       /\ zip_buffer'.offered =>
            \A s \in 1..n_sheets :
                SheetFile(s) \in DOMAIN zip_buffer'.files <=> fetch_calls'[s] = 1]_vars

\* C10 witness: the bundle is offered; sheet 2 was skipped and sheet 3, read
\* after it, is in the bundle with a row and a diagnostic
C10_Witness ==
    /\ zip_buffer.offered
    /\ n_sheets = 3
    /\ fetch_calls[1] = 1 /\ fetch_calls[2] = 0 /\ fetch_calls[3] = 1
    /\ SheetFile(2) \notin DOMAIN zip_buffer.files
    /\ SheetFile(3) \in DOMAIN zip_buffer.files
    /\ zip_buffer.files[SheetFile(3)] # <<>>
    /\ \E k \in 1..Len(error_logs_list) : error_logs_list[k].dept = 3

-----------------------------------------------------------------------------
(* Claims about the run as a whole *)

\* lines 189-192: all four required fields have a column and there is a key
ConfigValid == (\A k \in RequiredFields : mapping[k] # NONE_COL) /\ final_api_key # ""

\* the message of the except block at line 475 is among msgs
ExceptionShown(msgs) == \E k \in 1..Len(msgs) : msgs[k] = Message("error", "exception")

\* C11: the bundle is offered only by a run with a valid configuration in which
\* no exception reached the handler, and then it holds the report and the
\* workbooks of the sheets processed; with an invalid configuration the run ends
\* at once with one error message, no sheet read and no request sent; an
\* exception ends the run (no step follows it) with nothing offered, whatever
\* workbooks were already built.
C11_AllOrNothing ==
    [][/\ pc \notin {"done", "aborted"}
       /\ (pc = "start" /\ ~ConfigValid) =>
            /\ pc' = "done"
            /\ Len(st_messages') = Len(st_messages) + 1
            /\ st_messages'[Len(st_messages')].level = "error"
            /\ ~ExceptionShown(st_messages')
            /\ df' = EmptySheet /\ rows_read' = 0
            /\ \A s \in 1..MaxSheets : fetch_calls'[s] = 0
            /\ requests' = <<>> /\ api_results' = EmptyDict
            /\ output_files' = EmptyDict /\ zip_buffer' = NoZip
       /\ zip_buffer'.offered =>
            /\ ConfigValid
            /\ pc' = "done"
            /\ ~ExceptionShown(st_messages')
            /\ DOMAIN zip_buffer'.files =
                   {ReportFile} \cup {SheetFile(s) : s \in {t \in 1..n_sheets : fetch_calls'[t] = 1}}
       /\ ExceptionShown(st_messages') <=> pc' = "aborted"
       /\ pc' = "aborted" => zip_buffer' = NoZip]_vars

\* C11 witness: the run is aborted at its second sheet; the workbook of the first
\* sheet was built, with a row in it, and nothing is offered
C11_Witness ==
    /\ pc = "aborted"
    /\ i = 2
    /\ SheetFile(1) \in DOMAIN output_files
    /\ output_files[SheetFile(1)] # <<>>
    /\ ~zip_buffer.offered
    /\ ExceptionShown(st_messages)

\* the id extracted from the URL cell of row p of the sheet being processed
RowId(p) == extract_video_id(df.rows[p][mapping["youtube"]])

\* the ids extracted from the rows of sheet d
ExtractedIds(d) ==
    {extract_video_id(d.rows[p][mapping["youtube"]]) : p \in 1..Len(d.rows)} \ {None, <<>>}

\* rows p and q of the sheet being processed have the same extracted id
SameId(p, q) == RowId(p) # None /\ RowId(p) = RowId(q)

\* C12: fetch_youtube_details is called once for a processed sheet, with each id
\* extracted from the sheet's rows exactly once in its argument; while the call
\* runs no row is classified and no diagnostic is added, and when it returns the
\* row pass starts at the first row; during the row pass the lookup table, the id
\* map and the requests are not changed; a row with the same extracted id as an
\* earlier row of the sheet gets the same duration text, and the same branch as
\* the row just before it.
C12_FetchOncePerSheetBeforeRows ==
    [][/\ \A s \in 1..MaxSheets : fetch_calls'[s] <= 1
       /\ (pc = "read" /\ pc' = "fetch_call") =>
            /\ fetch_calls[i] = 0 /\ fetch_calls'[i] = 1
            /\ Range(video_ids') = ExtractedIds(df)
            /\ Len(video_ids') = Cardinality(ExtractedIds(df))
       /\ pc \in {"fetch_call", "fetch_loop"} =>
            /\ UNCHANGED <<df, id_map, video_ids, fetch_calls, error_logs_list, output_files>>
            /\ pc' \in {"fetch_loop", "rows"}
            /\ pc' = "rows" => r' = 1 /\ new_data' = <<>>
       /\ pc = "rows" =>
            /\ fetch_calls[i] = 1
            /\ UNCHANGED <<api_results, id_map, video_ids, requests, results, fetch_calls, df>>
       /\ (RowPre /\ r >= 2) =>
            /\ \A p \in 1..(r - 1) :
                   SameId(p, r) => new_data'[r].duration_text = new_data'[p].duration_text
            /\ SameId(r - 1, r) => last.step = "row" /\ last'.branch = last.branch]_vars

\* C12 witness: two rows of a sheet carry the same id and different raw duration
\* values; one request was sent for the sheet, and both rows were classified
\* playable with the same duration text
C12_Witness ==
    /\ pc = "rows" /\ r = 3 /\ Len(df.rows) = 2
    /\ SameId(1, 2)
    /\ mapping["duration"] # NONE_COL
    /\ df.rows[1][mapping["duration"]] # df.rows[2][mapping["duration"]]
    /\ fetch_calls[i] = 1
    /\ Len(video_ids) = 1 /\ Len(requests) = 1
    /\ last = [step |-> "row", branch |-> "ok"]
    /\ Len(new_data) = 2
    /\ new_data[1].duration_text = new_data[2].duration_text
    /\ new_data[1].duration_text # df.rows[1][mapping["duration"]]

-----------------------------------------------------------------------------
(* Claims about error_logs_list and the report *)

\* a is an initial part of b
IsPrefix(a, b) == Len(a) <= Len(b) /\ SubSeq(b, 1, Len(a)) = a

\* diagnostic d is about a row that comes before the row of diagnostic e: an
\* earlier sheet, or the same sheet and a smaller entry number (the entry
\* numbers of a sheet grow with the row index)
Before(d, e) == d.dept < e.dept \/ (d.dept = e.dept /\ d.no.n < e.no.n)

\* the report rep lists the diagnostics logs, five lines each from line 6 on, in
\* the order of logs, or has the single none-found line
ReportLists(rep, logs) ==
    IF logs = <<>>
    THEN Len(rep) = 10 /\ rep[6] = <<"none-found">>
    ELSE /\ Len(rep) = 9 + 5 * Len(logs)
         /\ \A k \in 1..Len(rep) : rep[k] # <<"none-found">>
         /\ \A k \in 1..Len(logs) :
               /\ rep[5 * k + 1] = <<"who", logs[k].dept, logs[k].no, logs[k].name>>
               /\ rep[5 * k + 2] = <<"status", logs[k].reason>>
               /\ rep[5 * k + 3] = <<"url", logs[k].url>>
               /\ rep[5 * k + 4] = <<"email", logs[k].email>>
               /\ rep[5 * k + 5] = <<"blank">>

\* C13: every step keeps the diagnostics already in error_logs_list, in place and
\* unchanged, and adds at most one, at the end, for the row being processed;
\* the sheet index and, within a row pass, the row index never go back, so the
\* diagnostics are in sheet order and, within a sheet, in row order; the report
\* of the bundle lists them in that order, or has the none-found line when
\* there is none.
C13_DiagnosticsAppendOnly ==
    [][/\ IsPrefix(error_logs_list, error_logs_list')
       /\ Len(error_logs_list') <= Len(error_logs_list) + 1
       /\ Len(error_logs_list') = Len(error_logs_list) + 1 =>
            /\ RowPre
            /\ NewLog.dept = i
            /\ NewLog.no = df.rows[r][mapping["entry_number"]]
            /\ NewLog.url = CurUrl
       /\ i' >= i
       /\ (pc = "rows" /\ pc' = "rows") => r' = r + 1
       /\ \A j, k \in 1..Len(error_logs_list') :
             j < k => Before(error_logs_list'[j], error_logs_list'[k])
       /\ zip_buffer'.offered =>
             ReportLists(zip_buffer'.files[ReportFile], error_logs_list')]_vars

\* C13 witness: the bundle is offered after a run that added two diagnostics
\* with different reasons; the report has the first at lines 6-10 and the second
\* at lines 11-15
C13_Witness ==
    /\ zip_buffer.offered
    /\ Len(error_logs_list) = 2
    /\ error_logs_list[1].reason # error_logs_list[2].reason
    /\ error_logs_list[1].url # error_logs_list[2].url
    /\ zip_buffer.files[ReportFile][7] = <<"status", error_logs_list[1].reason>>
    /\ zip_buffer.files[ReportFile][12] = <<"status", error_logs_list[2].reason>>

\* C13 witness: the bundle is offered after a run without a diagnostic, and the
\* report has the none-found line
C13_WitnessNone ==
    /\ zip_buffer.offered
    /\ error_logs_list = <<>>
    /\ \E s \in 1..n_sheets : SheetFile(s) \in DOMAIN zip_buffer.files
                              /\ zip_buffer.files[SheetFile(s)] # <<>>
    /\ zip_buffer.files[ReportFile][6] = <<"none-found">>

====
